---- MODULE Spec2Model ----
(***************************************************************************)
(* SimpleRDBMS (src/src/db.js): an in-memory SQL engine.  The engine's     *)
(* state is the catalog `tables` and the command `history`; `execute` and  *)
(* `fromJSON` are the operations that change them.  There are two engine   *)
(* instances, db (tables, history) and db2 (tables2, history2); `shared`   *)
(* says that db.tables and db2.tables are one and the same object, and     *)
(* `result` is what the last call of execute gave back.  Each engine is    *)
(* held by a REPL (src/bin/repl.js); `file` is the file that their .save   *)
(* writes and their .load reads.                                           *)
(*                                                                         *)
(* A JavaScript string is a string; Len, SubSeq and \o take it apart       *)
(* character by character, so that trimming, splitting, the quote-aware    *)
(* value scanner and the regular expressions of the handlers are computed  *)
(* on the text of the statement.                                           *)
(*                                                                         *)
(* JavaScript values are tagged records: Num(n), Str(s), Bool(b), null,    *)
(* undefined, NaN.  Numbers are integers and the two infinities: the       *)
(* decimal-integer tokens ([+-]digits) and [+-]Infinity are the numeric    *)
(* literals of the model, and no input has another numeric form (1.5,      *)
(* 1e3, 0x1f).  Table and column                                           *)
(* names of the inputs start with a letter, so an object's keys are listed *)
(* in insertion order.  this.tables is a plain object: a lookup of a name  *)
(* that Object.prototype defines finds the inherited property.  Column     *)
(* names of the inputs are not such names, so a lookup of a missing key    *)
(* of a row gives undefined.                                               *)
(***************************************************************************)
EXTENDS Integers, Sequences, FiniteSets, TLC

VARIABLES tables, history, result, tables2, history2, shared, file

vars == <<tables, history, result, tables2, history2, shared, file>>

-----------------------------------------------------------------------------
(* Characters and strings                                                  *)

\* The characters of the inputs, in code-unit order.
Ascii == "\t\n !\"#$%&'()*+,-./0123456789:;<=>?@ABCDEFGHIJKLMNOPQRSTUVWXYZ[]^_abcdefghijklmnopqrstuvwxyz{|}~"

\* the upper-case form of each lower-case letter, and the converse
UpperOf ==
  [a |-> "A", b |-> "B", c |-> "C", d |-> "D", e |-> "E", f |-> "F", g |->
  "G", h |-> "H", i |-> "I", j |-> "J", k |-> "K", l |-> "L", m |-> "M", n |->
  "N", o |-> "O", p |-> "P", q |-> "Q", r |-> "R", s |-> "S", t |-> "T", u |->
  "U", v |-> "V", w |-> "W", x |-> "X", y |-> "Y", z |-> "Z"]

LowerOf ==
  [A |-> "a", B |-> "b", C |-> "c", D |-> "d", E |-> "e", F |-> "f", G |->
  "g", H |-> "h", I |-> "i", J |-> "j", K |-> "k", L |-> "l", M |-> "m", N |->
  "n", O |-> "o", P |-> "p", Q |-> "q", R |-> "r", S |-> "s", T |-> "t", U |->
  "u", V |-> "v", W |-> "w", X |-> "x", Y |-> "y", Z |-> "z"]

DigitChars == {"0", "1", "2", "3", "4", "5", "6", "7", "8", "9"}

\* the character of s at position i, counted from 1
Ch(s, i) == SubSeq(s, i, i)

CharCode(c) == CHOOSE i \in 1..Len(Ascii) : Ch(Ascii, i) = c

IsLower(c) == c \in DOMAIN UpperOf

IsUpper(c) == c \in DOMAIN LowerOf

IsDigit(c) == c \in DigitChars

DigitVal(c) == CHOOSE n \in 0..9 : Ch("0123456789", n + 1) = c

\* String.prototype.trim strips these from both ends.
IsSpace(c) == c \in {" ", "\t", "\n", "\r"}

\* \w of a regular expression
IsWord(c) == IsLower(c) \/ IsUpper(c) \/ IsDigit(c) \/ c = "_"

\* . of a regular expression: any character but a line terminator
IsDot(c) == c \notin {"\n", "\r"}

ToUpperChar(c) == IF IsLower(c) THEN UpperOf[c] ELSE c

ToLowerChar(c) == IF IsUpper(c) THEN LowerOf[c] ELSE c

RECURSIVE toUpperCase(_)
toUpperCase(s) == IF s = "" THEN "" ELSE ToUpperChar(Head(s)) \o toUpperCase(Tail(s))

RECURSIVE toLowerCase(_)
toLowerCase(s) == IF s = "" THEN "" ELSE ToLowerChar(Head(s)) \o toLowerCase(Tail(s))

Min(S) == CHOOSE x \in S : \A y \in S : x <= y

Max(S) == CHOOSE x \in S : \A y \in S : x >= y

trim(s) ==
  LET keep == {i \in 1..Len(s) : ~IsSpace(Ch(s, i))}
  IN  IF keep = {} THEN "" ELSE SubSeq(s, Min(keep), Max(keep))

startsWith(s, c) == Len(s) >= 1 /\ Ch(s, 1) = c

endsWith(s, c) == Len(s) >= 1 /\ Ch(s, Len(s)) = c

\* s.slice(1, -1)
slice1(s) == SubSeq(s, 2, Len(s) - 1)

\* s.split(sep) for a one-character separator: the pieces between the
\* occurrences of sep, empty pieces included.
RECURSIVE SplitFrom(_, _, _)
SplitFrom(s, sep, from) ==
  LET hits == {i \in from..Len(s) : Ch(s, i) = sep}
  IN  IF hits = {} THEN <<SubSeq(s, from, Len(s))>>
      ELSE <<SubSeq(s, from, Min(hits) - 1)>> \o SplitFrom(s, sep, Min(hits) + 1)

split(s, sep) == SplitFrom(s, sep, 1)

\* s.split(/\s+/): the pieces between the maximal runs of white space.
RECURSIVE SplitWsFrom(_, _)
SplitWsFrom(s, from) ==
  LET hits == {i \in from..Len(s) : IsSpace(Ch(s, i))}
  IN  IF hits = {} THEN <<SubSeq(s, from, Len(s))>>
      ELSE LET h    == Min(hits)
               rest == {i \in h..Len(s) : ~IsSpace(Ch(s, i))}
           IN  IF rest = {} THEN <<SubSeq(s, from, h - 1), "">>
               ELSE <<SubSeq(s, from, h - 1)>> \o SplitWsFrom(s, Min(rest))

splitWs(s) == SplitWsFrom(s, 1)

\* arr.filter((p) => p) on strings: the non-empty ones
filterNonEmpty(arr) == SelectSeq(arr, LAMBDA p : p # "")

includes(arr, x) == \E i \in 1..Len(arr) : arr[i] = x

\* the string comparison of the relational operators: by code units
RECURSIVE StrLess(_, _)
StrLess(a, b) ==
  IF b = "" THEN FALSE
  ELSE IF a = "" THEN TRUE
  ELSE IF Ch(a, 1) = Ch(b, 1) THEN StrLess(Tail(a), Tail(b))
  ELSE CharCode(Ch(a, 1)) < CharCode(Ch(b, 1))

-----------------------------------------------------------------------------
(* Regular expressions of the handlers.  A pattern is the sequence of its  *)
(* items: a literal text, the groups (\w+) and (.+), and an optional       *)
(* non-capturing group (?:...)? of items.  The result of a match is        *)
(* [ok, g]: g[n] is the text of group n, and a group that did not take     *)
(* part in the match (undefined in JavaScript) is the empty string: no     *)
(* group that took part is empty, and the handlers only test such a group  *)
(* for truthiness.                                                         *)

Lit(text) == [t |-> "lit", text |-> text]

Word == [t |-> "word"]

Dots == [t |-> "dots"]

Opt(items) == [t |-> "opt", items |-> items]

NoMatch == [ok |-> FALSE, g |-> <<>>]

\* lit occurs in s at position i, letters compared without case (flag i)
LitAt(s, i, lit) ==
  /\ i + Len(lit) - 1 <= Len(s)
  /\ \A j \in 1..Len(lit) : ToUpperChar(Ch(s, i + j - 1)) = ToUpperChar(Ch(lit, j))

\* the position after the longest run of \w characters that starts at i
WordEnd(s, i) == Min({j \in i..(Len(s) + 1) : j > Len(s) \/ ~IsWord(Ch(s, j))})

\* the position after the longest run of . characters that starts at i
DotEnd(s, i) == Min({j \in i..(Len(s) + 1) : j > Len(s) \/ ~IsDot(Ch(s, j))})

\* the groups of an optional part that is skipped: all undefined
Skipped(items) ==
  [n \in 1..Cardinality({j \in 1..Len(items) : items[j].t \in {"word", "dots"}}) |-> ""]

\* the first alternative if it matches, the second otherwise
Either(first, second) == IF first.ok THEN first ELSE second

\* MatchAt: the items pat match s from position i on, g being the groups
\* captured before them.  Longest: a greedy group that starts at i and may
\* end before any position up to e takes the longest text after which the
\* rest of the pattern matches.  An optional part is tried before it is
\* skipped.
RECURSIVE MatchAt(_, _, _, _), Longest(_, _, _, _, _)
MatchAt(pat, s, i, g) ==
  IF pat = <<>> THEN [ok |-> TRUE, g |-> g]
  ELSE CASE Head(pat).t = "lit" ->
              IF LitAt(s, i, Head(pat).text)
              THEN MatchAt(Tail(pat), s, i + Len(Head(pat).text), g)
              ELSE NoMatch
         [] Head(pat).t = "word" -> Longest(Tail(pat), s, i, WordEnd(s, i), g)
         [] Head(pat).t = "dots" -> Longest(Tail(pat), s, i, DotEnd(s, i), g)
         [] Head(pat).t = "opt" ->
              Either(MatchAt(Head(pat).items \o Tail(pat), s, i, g),
                     MatchAt(Tail(pat), s, i, g \o Skipped(Head(pat).items)))

Longest(rest, s, i, e, g) ==
  IF e <= i THEN NoMatch
  ELSE Either(MatchAt(rest, s, e, Append(g, SubSeq(s, i, e - 1))),
              Longest(rest, s, i, e - 1, g))

\* the match at the leftmost position at which there is one
Leftmost(pat, s, starts) ==
  IF starts = {} THEN NoMatch ELSE MatchAt(pat, s, Min(starts), <<>>)

\* s.match(pat)
Match(s, pat) == Leftmost(pat, s, {i \in 1..Len(s) : MatchAt(pat, s, i, <<>>).ok})

\* /CREATE TABLE (\w+) \((.+)\)/i
ReCreate == <<Lit("CREATE TABLE "), Word, Lit(" ("), Dots, Lit(")")>>

\* /INSERT INTO (\w+) VALUES \((.+)\)/i
ReInsert == <<Lit("INSERT INTO "), Word, Lit(" VALUES ("), Dots, Lit(")")>>

\* /SELECT (.+) FROM (\w+)(?: WHERE (.+))?/i
ReSelect == <<Lit("SELECT "), Dots, Lit(" FROM "), Word, Opt(<<Lit(" WHERE "), Dots>>)>>

\* /UPDATE (\w+) SET (.+)(?: WHERE (.+))?/i
ReUpdate == <<Lit("UPDATE "), Word, Lit(" SET "), Dots, Opt(<<Lit(" WHERE "), Dots>>)>>

\* /DELETE FROM (\w+)(?: WHERE (.+))?/i
ReDelete == <<Lit("DELETE FROM "), Word, Opt(<<Lit(" WHERE "), Dots>>)>>

\* /DROP TABLE (\w+)/i
ReDrop == <<Lit("DROP TABLE "), Word>>

\* /DESCRIBE (\w+)/i
ReDescribe == <<Lit("DESCRIBE "), Word>>

-----------------------------------------------------------------------------
(* JavaScript values and their comparisons                                 *)

null == [k |-> "null"]

undefined == [k |-> "undefined"]

NaN == [k |-> "NaN"]

Num(n) == [k |-> "number", v |-> n]

Str(s) == [k |-> "string", v |-> s]

Bool(b) == [k |-> "boolean", v |-> b]

\* Infinity is the number above every number that a decimal-integer token
\* of the inputs denotes
Infinity == Num(2147483647)

NegativeInfinity == Num(0 - 2147483647)

\* isFinite(x), for a number x
IsFinite(x) == x # Infinity /\ x # NegativeInfinity

RECURSIVE DigitsVal(_)
DigitsVal(s) == IF s = "" THEN 0 ELSE 10 * DigitsVal(SubSeq(s, 1, Len(s) - 1)) + DigitVal(Ch(s, Len(s)))

AllDigits(s) == s # "" /\ \A i \in 1..Len(s) : IsDigit(Ch(s, i))

\* the number that the text t without white space around it denotes: the
\* empty string is 0, a decimal integer is its value, Infinity with or
\* without a sign is that infinity, any other text is NaN
NumberOfTrimmed(t) ==
  IF t = "" THEN Num(0)
  ELSE IF t \in {"Infinity", "+Infinity"} THEN Infinity
  ELSE IF t = "-Infinity" THEN NegativeInfinity
  ELSE IF AllDigits(t) THEN Num(DigitsVal(t))
  ELSE IF Ch(t, 1) = "-" /\ AllDigits(Tail(t)) THEN Num(0 - DigitsVal(Tail(t)))
  ELSE IF Ch(t, 1) = "+" /\ AllDigits(Tail(t)) THEN Num(DigitsVal(Tail(t)))
  ELSE NaN

\* Number(str): white space around the text is ignored
NumberOf(str) == NumberOfTrimmed(trim(str))

\* ToNumber of a value, as the comparison operators apply it
ToNumber(x) ==
  CASE x.k = "number"    -> x
    [] x.k = "string"    -> NumberOf(x.v)
    [] x.k = "boolean"   -> IF x.v THEN Num(1) ELSE Num(0)
    [] x.k = "null"      -> Num(0)
    [] OTHER             -> NaN

\* the comparisons of two numbers: false when one of them is NaN
NumEq(x, y) == x.k = "number" /\ y.k = "number" /\ x.v = y.v

NumLess(x, y) == x.k = "number" /\ y.k = "number" /\ x.v < y.v

NumLessEq(x, y) == x.k = "number" /\ y.k = "number" /\ x.v <= y.v

\* a === b
StrictEq(a, b) == a.k = b.k /\ a.k # "NaN" /\ a = b

\* a == b
LooseEq(a, b) ==
  CASE a.k = "NaN" \/ b.k = "NaN"                         -> FALSE
    [] a.k = b.k                                          -> a = b
    [] a.k \in {"null", "undefined"}                      -> b.k \in {"null", "undefined"}
    [] b.k \in {"null", "undefined"}                      -> FALSE
    [] OTHER                                              -> NumEq(ToNumber(a), ToNumber(b))

\* a < b
Less(a, b) ==
  IF a.k = "string" /\ b.k = "string" THEN StrLess(a.v, b.v)
  ELSE NumLess(ToNumber(a), ToNumber(b))

\* a <= b: both strings, "not b < a"; otherwise numeric, false on NaN
LessEq(a, b) ==
  IF a.k = "string" /\ b.k = "string" THEN ~StrLess(b.v, a.v)
  ELSE NumLessEq(ToNumber(a), ToNumber(b))

-----------------------------------------------------------------------------
(* Value Parser                                                            *)

\* _parseValue for a text that is not between quotes: lower is the text in
\* lower case and number what Number makes of it
Unquoted(str, lower, number) ==
  IF lower = "null" THEN null
  ELSE IF lower = "true" THEN Bool(TRUE)
  ELSE IF lower = "false" THEN Bool(FALSE)
  ELSE IF number.k # "NaN" THEN number
  ELSE Str(str)

\* _parseValue(str) for a string str
_parseValue(str) ==
  IF startsWith(str, "'") /\ endsWith(str, "'") THEN Str(slice1(str))
  ELSE IF startsWith(str, "\"") /\ endsWith(str, "\"") THEN Str(slice1(str))
  ELSE Unquoted(str, toLowerCase(str), NumberOf(str))

\* if (current.trim()) values.push(this._parseValue(current.trim()))
Flush(values, current) ==
  IF trim(current) # "" THEN Append(values, _parseValue(trim(current))) ELSE values

\* One step of the scanner of _parseValues: st is [values, current,
\* inQuotes, quoteChar], char the next character of the list.  The closing
\* quote pushes current as it stands.
ScanChar(st, char) ==
  IF (char = "'" \/ char = "\"") /\ ~st.inQuotes
  THEN [st EXCEPT !.inQuotes = TRUE, !.quoteChar = char, !.current = st.current \o char]
  ELSE IF char = st.quoteChar /\ st.inQuotes
  THEN [st EXCEPT !.inQuotes = FALSE,
                  !.values = Append(st.values, Str(st.current \o char)),
                  !.current = ""]
  ELSE IF char = "," /\ ~st.inQuotes
  THEN [st EXCEPT !.values = Flush(st.values, st.current), !.current = ""]
  ELSE [st EXCEPT !.current = st.current \o char]

RECURSIVE Scan(_, _, _)
Scan(st, s, i) == IF i > Len(s) THEN st ELSE Scan(ScanChar(st, Ch(s, i)), s, i + 1)

\* the values when the scanner has read the whole list
Scanned(st) == Flush(st.values, st.current)

\* _parseValues with a scanner that cuts at every comma, quoted or not
_parseValues_cutsAtEveryComma(valuesStr) ==
  LET kept == SelectSeq(split(valuesStr, ","), LAMBDA p : trim(p) # "")
  IN  [i \in 1..Len(kept) |-> _parseValue(trim(kept[i]))]

\* _parseValues(valuesStr): the values of a comma-separated literal list
_parseValues(valuesStr) ==
  Scanned(Scan([values |-> <<>>, current |-> "", inQuotes |-> FALSE, quoteChar |-> ""],
               valuesStr, 1))

-----------------------------------------------------------------------------
(* Predicate Evaluator                                                     *)

\* condition.includes(op)
Contains(s, op) == \E i \in 1..(Len(s) - Len(op) + 1) : SubSeq(s, i, i + Len(op) - 1) = op

\* condition.split(op) for a string separator of one or two characters
RECURSIVE SplitStrFrom(_, _, _)
SplitStrFrom(s, op, from) ==
  LET hits == {i \in from..(Len(s) - Len(op) + 1) : SubSeq(s, i, i + Len(op) - 1) = op}
  IN  IF hits = {} THEN <<SubSeq(s, from, Len(s))>>
      ELSE <<SubSeq(s, from, Min(hits) - 1)>> \o SplitStrFrom(s, op, Min(hits) + Len(op))

splitStr(s, op) == SplitStrFrom(s, op, 1)

\* row[key]: undefined for a key the row does not have
Get(row, key) == IF key \in DOMAIN row THEN row[key] ELSE undefined

\* the list with the operators of one character before those of two
operators_shortFirst == << "=", "<", ">", ">=", "<=", "!=", "<>" >>

operators == << ">=", "<=", "!=", "<>", "=", "<", ">" >>

\* Compare that takes > for >=
Compare_greaterOrEqual(op, leftVal, rightVal) ==
  CASE op = "="  -> LooseEq(leftVal, rightVal)
    [] op = "!=" -> ~LooseEq(leftVal, rightVal)
    [] op = "<>" -> ~LooseEq(leftVal, rightVal)
    [] op = "<"  -> Less(leftVal, rightVal)
    [] op = ">"  -> LessEq(rightVal, leftVal)
    [] op = "<=" -> LessEq(leftVal, rightVal)
    [] op = ">=" -> LessEq(rightVal, leftVal)

\* the switch of _evaluateWhere
Compare(op, leftVal, rightVal) ==
  CASE op = "="  -> LooseEq(leftVal, rightVal)
    [] op = "!=" -> ~LooseEq(leftVal, rightVal)
    [] op = "<>" -> ~LooseEq(leftVal, rightVal)
    [] op = "<"  -> Less(leftVal, rightVal)
    [] op = ">"  -> Less(rightVal, leftVal)
    [] op = "<=" -> LessEq(leftVal, rightVal)
    [] op = ">=" -> LessEq(rightVal, leftVal)

\* the body of the loop of _evaluateWhere for the operator found: pieces is
\* condition.split(op), of which the first two are left and right
Operands(row, op, pieces) ==
  Compare(op, Get(row, trim(pieces[1])), _parseValue(trim(pieces[2])))

\* the first operator of the list that the condition contains decides
FirstOperator(row, condition, found) ==
  IF found = {} THEN FALSE
  ELSE Operands(row, operators[Min(found)], splitStr(condition, operators[Min(found)]))

\* _evaluateWhere(row, condition)
_evaluateWhere(row, condition) ==
  FirstOperator(row, condition, {i \in 1..Len(operators) : Contains(condition, operators[i])})

-----------------------------------------------------------------------------
(* Catalog.  this.tables is the sequence of its tables in key order; a     *)
(* table is [name, columns, constraints, rows, indexes]: columns the       *)
(* sequence of [name, type] in key order, constraints what the key         *)
(* primaryKey of that object holds (the empty string when it is absent)    *)
(* and the set of its other keys, the columns marked unique, rows a        *)
(* sequence of functions from keys to values.                              *)
(*                                                                         *)
(* A handler is a chain of definitions, one for each stage of its code:    *)
(* the stage hands the values it has computed to the next.                 *)

\* a text built from a template literal: the template and the values put in
Msg(fmt, args) == [fmt |-> fmt, args |-> args]

\* how a handler ends: it returns value, or throws an Error whose message
\* is value; tables is the catalog it leaves behind.
Return(tbls, value) == [tables |-> tbls, thrown |-> FALSE, value |-> value]

Throw(tbls, message) == [tables |-> tbls, thrown |-> TRUE, value |-> message]

\* the property names that every plain object inherits from
\* Object.prototype; each of them holds a function or an object
ObjectPrototype ==
  {"constructor", "hasOwnProperty", "isPrototypeOf", "propertyIsEnumerable",
   "toLocaleString", "toString", "valueOf", "__proto__",
   "__defineGetter__", "__defineSetter__", "__lookupGetter__", "__lookupSetter__"}

\* tableName is a key of this.tables
IsTable(tbls, name) == \E i \in 1..Len(tbls) : tbls[i].name = name

\* this.tables[tableName] is truthy: a table of the catalog, or a property
\* inherited from Object.prototype
HasTable(tbls, name) == IsTable(tbls, name) \/ name \in ObjectPrototype

\* what a handler throws when it reads rows or columns of something that
\* is not a table: table.rows and table.columns are undefined
NotATable(tbls, reading) ==
  IF reading = ""
  THEN Throw(tbls, Msg("Cannot convert undefined or null to object", <<>>))
  ELSE Throw(tbls, Msg("Cannot read properties of undefined (reading '${reading}')", <<reading>>))

TableIndex(tbls, name) == CHOOSE i \in 1..Len(tbls) : tbls[i].name = name

\* this.tables[tableName]
TableOf(tbls, name) == tbls[TableIndex(tbls, name)]

\* Object.keys(table.columns)
ColumnNames(table) == [i \in 1..Len(table.columns) |-> table.columns[i].name]

\* arr.indexOf(x), counted from 1; 0 when x is absent
indexOf(arr, x) ==
  IF \E i \in 1..Len(arr) : arr[i] = x
  THEN Min({i \in 1..Len(arr) : arr[i] = x})
  ELSE 0

\* columns[colName] = colType: a new key goes last, a known key keeps its place
SetColumn(columns, colName, colType) ==
  IF \E i \in 1..Len(columns) : columns[i].name = colName
  THEN [i \in 1..Len(columns) |->
          IF columns[i].name = colName THEN [name |-> colName, type |-> colType] ELSE columns[i]]
  ELSE Append(columns, [name |-> colName, type |-> colType])

\* The object { unique: true } where constraints.primaryKey holds it: it is
\* truthy, it is no column name (a column name has no blank in it), and
\* used as a key of a row it reads "[object Object]".
UniqueMark == "[object Object]"

\* constraints.primaryKey after the two ifs of a column definition:
\* PRIMARY writes the column name there, and then UNIQUE, for the column
\* named primaryKey, writes { unique: true } over it
KeyAfter(primaryKey, parts) ==
  IF includes(parts, "UNIQUE") /\ parts[1] = "primaryKey" THEN UniqueMark
  ELSE IF includes(parts, "PRIMARY") THEN parts[1]
  ELSE primaryKey

\* the body of columnsDef.split(",").forEach once the definition is cut
\* into parts: acc is [columns, primaryKey, unique, failed]; a definition
\* with no second part makes parts[1].toUpperCase() throw a TypeError, which
\* ends the loop.  primaryKey and unique are the keys of the one object
\* constraints: primaryKey is what its key primaryKey holds (the empty
\* string when the key is absent), unique the other keys, each of which
\* holds { unique: true }.
ColParts(acc, parts) ==
  IF Len(parts) < 2 THEN [acc EXCEPT !.failed = TRUE]
  ELSE [columns    |-> SetColumn(acc.columns, parts[1], toUpperCase(parts[2])),
        primaryKey |-> KeyAfter(acc.primaryKey, parts),
        unique     |-> IF includes(parts, "UNIQUE") /\ parts[1] # "primaryKey"
                       THEN acc.unique \cup {parts[1]}
                       ELSE acc.unique,
        failed     |-> FALSE]

\* the body of columnsDef.split(",").forEach
ColDef(acc, colDef) == ColParts(acc, splitWs(trim(colDef)))

RECURSIVE ColDefs(_, _, _)
ColDefs(acc, defs, i) ==
  IF i > Len(defs) \/ acc.failed THEN acc ELSE ColDefs(ColDef(acc, defs[i]), defs, i + 1)

\* a new table whose first column is its primary key when none is declared
NewTable_firstColumnIsKey(tableName, acc) ==
  [name        |-> tableName,
   columns     |-> acc.columns,
   constraints |-> [primaryKey |-> IF acc.primaryKey = "" THEN acc.columns[1].name
                                   ELSE acc.primaryKey,
                    unique     |-> acc.unique],
   rows        |-> <<>>,
   indexes     |-> <<>>]

\* a table of the catalog with no row
NewTable(tableName, acc) ==
  [name        |-> tableName,
   columns     |-> acc.columns,
   constraints |-> [primaryKey |-> acc.primaryKey, unique |-> acc.unique],
   rows        |-> <<>>,
   indexes     |-> <<>>]

\* CreateColumns that registers the table before it reads the column
\* definitions: a definition that throws leaves the table behind
CreateColumns_registersFirst(tbls, tableName, acc) ==
  IF acc.failed
  THEN Throw(Append(tbls, NewTable(tableName, acc)),
             Msg("Cannot read properties of undefined (reading 'toUpperCase')", <<>>))
  ELSE Return(Append(tbls, NewTable(tableName, acc)),
              [message |-> Msg("Table ${tableName} created", <<tableName>>)])

\* _createTable from the loop on: acc is what the loop over the column
\* definitions leaves; the table is registered after the loop
CreateColumns(tbls, tableName, acc) ==
  IF acc.failed
  THEN Throw(tbls, Msg("Cannot read properties of undefined (reading 'toUpperCase')", <<>>))
  ELSE Return(Append(tbls, NewTable(tableName, acc)),
              [message |-> Msg("Table ${tableName} created", <<tableName>>)])

\* CreateMatched that drops the table of that name, if there is one,
\* instead of refusing the statement
CreateMatched_replaces(tbls, match) ==
  IF ~match.ok THEN Throw(tbls, Msg("Invalid CREATE TABLE syntax", <<>>))
  ELSE CreateColumns(SelectSeq(tbls, LAMBDA tb : tb.name # match.g[1]), match.g[1],
                     ColDefs([columns |-> <<>>, primaryKey |-> "", unique |-> {}, failed |-> FALSE],
                             split(match.g[2], ","), 1))

\* _createTable from the test of the match on
CreateMatched(tbls, match) ==
  IF ~match.ok THEN Throw(tbls, Msg("Invalid CREATE TABLE syntax", <<>>))
  ELSE IF HasTable(tbls, match.g[1])
  THEN Throw(tbls, Msg("Table ${tableName} already exists", <<match.g[1]>>))
  ELSE CreateColumns(tbls, match.g[1],
                     ColDefs([columns |-> <<>>, primaryKey |-> "", unique |-> {}, failed |-> FALSE],
                             split(match.g[2], ","), 1))

_createTable(tbls, sql) == CreateMatched(tbls, Match(sql, ReCreate))

\* the row that INSERT builds: columnNames.forEach((col, i) => row[col] = values[i])
NewRow(columnNames, values) ==
  [col \in {columnNames[i] : i \in 1..Len(columnNames)} |-> values[indexOf(columnNames, col)]]

\* the duplicate test looking at the last row only
PkTaken_lastRowOnly(table, pkValue) ==
  /\ table.rows # <<>>
  /\ StrictEq(Get(table.rows[Len(table.rows)], table.constraints.primaryKey), pkValue)

\* table.rows.find((row) => row[pkCol] === pkValue) finds a row
PkTaken(table, pkValue) ==
  \E r \in 1..Len(table.rows) :
     StrictEq(Get(table.rows[r], table.constraints.primaryKey), pkValue)

\* an INSERT that puts the new row before the rows of the table
InsertValues_putsRowFirst(tbls, t, values) ==
  LET table == tbls[t]
      columnNames == ColumnNames(table)
      pkCol == table.constraints.primaryKey
      pkIndex == indexOf(columnNames, pkCol)
      pkValue == IF pkIndex = 0 THEN undefined ELSE values[pkIndex]
  IN  IF Len(values) # Len(columnNames)
      THEN Throw(tbls, Msg("Expected ${columnNames.length} values, got ${values.length}",
                           <<Len(columnNames), Len(values)>>))
      ELSE IF pkCol # "" /\ PkTaken(table, pkValue)
      THEN Throw(tbls, Msg("Duplicate primary key: ${pkValue}", <<pkValue>>))
      ELSE Return([tbls EXCEPT ![t].rows = <<NewRow(columnNames, values)>> \o @],
                  [message |-> Msg("1 row inserted", <<>>)])

\* _insert from the parsed values on: t is the place of the table
InsertValues(tbls, t, values) ==
  LET table == tbls[t]
      columnNames == ColumnNames(table)
      pkCol == table.constraints.primaryKey
      pkIndex == indexOf(columnNames, pkCol)
      pkValue == IF pkIndex = 0 THEN undefined ELSE values[pkIndex]
  IN  IF Len(values) # Len(columnNames)
      THEN Throw(tbls, Msg("Expected ${columnNames.length} values, got ${values.length}",
                           <<Len(columnNames), Len(values)>>))
      ELSE IF pkCol # "" /\ PkTaken(table, pkValue)
      THEN Throw(tbls, Msg("Duplicate primary key: ${pkValue}", <<pkValue>>))
      ELSE Return([tbls EXCEPT ![t].rows = Append(@, NewRow(columnNames, values))],
                  [message |-> Msg("1 row inserted", <<>>)])

\* _insert from the test of the match on
InsertMatched(tbls, match) ==
  IF ~match.ok THEN Throw(tbls, Msg("Invalid INSERT syntax", <<>>))
  ELSE IF ~HasTable(tbls, match.g[1])
  THEN Throw(tbls, Msg("Table ${tableName} doesn't exist", <<match.g[1]>>))
  ELSE IF ~IsTable(tbls, match.g[1]) THEN NotATable(tbls, "")
  ELSE InsertValues(tbls, TableIndex(tbls, match.g[1]), _parseValues(match.g[2]))

_insert(tbls, sql) == InsertMatched(tbls, Match(sql, ReInsert))

\* the projection of one row on the requested columns
Selected(row, columnNames) ==
  [col \in {columnNames[i] : i \in 1..Len(columnNames)} \cap DOMAIN row |-> row[col]]

\* rows.filter((row) => this._evaluateWhere(row, whereClause)) under
\* if (whereClause)
Filtered(rows, whereClause) ==
  IF whereClause # ""
  THEN SelectSeq(rows, LAMBDA row : _evaluateWhere(row, whereClause))
  ELSE rows

\* columns.split(",").map((c) => c.trim())
TrimAll(pieces) == [i \in 1..Len(pieces) |-> trim(pieces[i])]

\* the names of the columns to project on
Requested(table, columns) ==
  IF columns = "*" THEN ColumnNames(table) ELSE TrimAll(split(columns, ","))

\* a projection that reports the number of columns as the count
Projected_countsColumns(tbls, rows, columnNames) ==
  Return(tbls, [data    |-> [i \in 1..Len(rows) |-> Selected(rows[i], columnNames)],
                count   |-> Len(columnNames),
                columns |-> columnNames])

\* _select from the projection on
Projected(tbls, rows, columnNames) ==
  Return(tbls, [data    |-> [i \in 1..Len(rows) |-> Selected(rows[i], columnNames)],
                count   |-> Len(rows),
                columns |-> columnNames])

\* a SELECT that leaves in the table the rows it has filtered
SelectMatched_keepsFiltered(tbls, selectMatch) ==
  IF ~selectMatch.ok THEN Throw(tbls, Msg("Invalid SELECT syntax", <<>>))
  ELSE IF ~HasTable(tbls, selectMatch.g[2])
  THEN Throw(tbls, Msg("Table ${tableName} doesn't exist", <<selectMatch.g[2]>>))
  ELSE IF ~IsTable(tbls, selectMatch.g[2])
  THEN NotATable(tbls, IF selectMatch.g[3] # "" THEN "filter"
                       ELSE IF selectMatch.g[1] = "*" THEN "" ELSE "map")
  ELSE Projected([tbls EXCEPT ![TableIndex(tbls, selectMatch.g[2])].rows =
                    Filtered(@, selectMatch.g[3])],
                 Filtered(TableOf(tbls, selectMatch.g[2]).rows, selectMatch.g[3]),
                 Requested(TableOf(tbls, selectMatch.g[2]), selectMatch.g[1]))

\* _select from the test of the match on
SelectMatched(tbls, selectMatch) ==
  IF ~selectMatch.ok THEN Throw(tbls, Msg("Invalid SELECT syntax", <<>>))
  ELSE IF ~HasTable(tbls, selectMatch.g[2])
  THEN Throw(tbls, Msg("Table ${tableName} doesn't exist", <<selectMatch.g[2]>>))
  ELSE IF ~IsTable(tbls, selectMatch.g[2])
  THEN NotATable(tbls, IF selectMatch.g[3] # "" THEN "filter"
                       ELSE IF selectMatch.g[1] = "*" THEN "" ELSE "map")
  ELSE Projected(tbls,
                 Filtered(TableOf(tbls, selectMatch.g[2]).rows, selectMatch.g[3]),
                 Requested(TableOf(tbls, selectMatch.g[2]), selectMatch.g[1]))

_select(tbls, sql) == SelectMatched(tbls, Match(sql, ReSelect))

_showTables(tbls) ==
  Return(tbls, [data  |-> [i \in 1..Len(tbls) |-> [Table |-> tbls[i].name]],
                count |-> Len(tbls)])

\* Object.entries(table.columns).map(...)
Described(table) ==
  [i \in 1..Len(table.columns) |->
     [Field |-> table.columns[i].name,
      Type  |-> table.columns[i].type,
      Key   |-> IF table.columns[i].name = table.constraints.primaryKey THEN "PRI" ELSE ""]]

\* _describe from the test of the match on
DescribeMatched(tbls, match) ==
  IF ~match.ok THEN Throw(tbls, Msg("Invalid DESCRIBE syntax", <<>>))
  ELSE IF ~HasTable(tbls, match.g[1])
  THEN Throw(tbls, Msg("Table ${tableName} doesn't exist", <<match.g[1]>>))
  ELSE IF ~IsTable(tbls, match.g[1]) THEN NotATable(tbls, "")
  ELSE Return(tbls, [data  |-> Described(TableOf(tbls, match.g[1])),
                     count |-> Len(TableOf(tbls, match.g[1]).columns)])

_describe(tbls, sql) == DescribeMatched(tbls, Match(sql, ReDescribe))

\* the body of setClause.split(",").forEach once the pair is cut at "=":
\* acc is [updates, failed], updates a function from column names to
\* values.  A pair with no "=" leaves val undefined and
\* _parseValue(undefined) throws a TypeError.
SetPieces(acc, pieces) ==
  IF Len(pieces) < 2 THEN [acc EXCEPT !.failed = TRUE]
  ELSE [updates |-> [c \in DOMAIN acc.updates \cup {trim(pieces[1])} |->
                       IF c = trim(pieces[1]) THEN _parseValue(trim(pieces[2]))
                       ELSE acc.updates[c]],
        failed  |-> FALSE]

\* the body of setClause.split(",").forEach
SetPair(acc, pair) == SetPieces(acc, split(pair, "="))

RECURSIVE SetPairs(_, _, _)
SetPairs(acc, pairs, i) ==
  IF i > Len(pairs) \/ acc.failed THEN acc ELSE SetPairs(SetPair(acc, pairs[i]), pairs, i + 1)

\* Object.assign(row, updates)
Assign(row, updates) ==
  [c \in DOMAIN row \cup DOMAIN updates |-> IF c \in DOMAIN updates THEN updates[c] ELSE row[c]]

\* the places of the rows that table.rows.forEach updates
Hits(rows, whereClause) ==
  {r \in 1..Len(rows) : whereClause = "" \/ _evaluateWhere(rows[r], whereClause)}

\* an UPDATE that leaves the rows of the table in reverse order
UpdateRows_reversesRows(tbls, t, updates, hits) ==
  Return([tbls EXCEPT ![t].rows =
            [r \in 1..Len(@) |->
               IF (Len(@) + 1 - r) \in hits THEN Assign(@[Len(@) + 1 - r], updates)
               ELSE @[Len(@) + 1 - r]]],
         [message |-> Msg("${affected} row(s) updated", <<Cardinality(hits)>>)])

\* _update from the loop over the rows on
UpdateRows(tbls, t, updates, hits) ==
  Return([tbls EXCEPT ![t].rows =
            [r \in 1..Len(@) |-> IF r \in hits THEN Assign(@[r], updates) ELSE @[r]]],
         [message |-> Msg("${affected} row(s) updated", <<Cardinality(hits)>>)])

\* _update from the loop over the pairs of the SET clause on
UpdatePairs(tbls, tableName, acc, whereClause) ==
  IF acc.failed
  THEN Throw(tbls, Msg("Cannot read properties of undefined (reading 'startsWith')", <<>>))
  ELSE IF ~IsTable(tbls, tableName) THEN NotATable(tbls, "forEach")
  ELSE UpdateRows(tbls, TableIndex(tbls, tableName), acc.updates,
                  Hits(TableOf(tbls, tableName).rows, whereClause))

\* _update from the test of the match on
UpdateMatched(tbls, match) ==
  IF ~match.ok THEN Throw(tbls, Msg("Invalid UPDATE syntax", <<>>))
  ELSE IF ~HasTable(tbls, match.g[1])
  THEN Throw(tbls, Msg("Table ${tableName} doesn't exist", <<match.g[1]>>))
  ELSE UpdatePairs(tbls, match.g[1],
                   SetPairs([updates |-> <<>>, failed |-> FALSE], split(match.g[2], ","), 1),
                   match.g[3])

_update(tbls, sql) == UpdateMatched(tbls, Match(sql, ReUpdate))

\* Kept that takes out the first row that matches and no other
Kept_firstMatchOnly(rows, whereClause) ==
  IF whereClause # ""
  THEN [k \in 1..(Len(rows) - (IF Hits(rows, whereClause) = {} THEN 0 ELSE 1)) |->
          IF Hits(rows, whereClause) = {} \/ k < Min(Hits(rows, whereClause))
          THEN rows[k] ELSE rows[k + 1]]
  ELSE <<>>

\* the rows that DELETE leaves in the table
Kept(rows, whereClause) ==
  IF whereClause # ""
  THEN SelectSeq(rows, LAMBDA row : ~_evaluateWhere(row, whereClause))
  ELSE <<>>

\* _delete from the count of the deleted rows on
DeleteRows(tbls, t, kept) ==
  Return([tbls EXCEPT ![t].rows = kept],
         [message |-> Msg("${deleted} row(s) deleted", <<Len(tbls[t].rows) - Len(kept)>>)])

\* _delete from the test of the match on
DeleteMatched(tbls, match) ==
  IF ~match.ok THEN Throw(tbls, Msg("Invalid DELETE syntax", <<>>))
  ELSE IF ~HasTable(tbls, match.g[1])
  THEN Throw(tbls, Msg("Table ${tableName} doesn't exist", <<match.g[1]>>))
  ELSE IF ~IsTable(tbls, match.g[1]) THEN NotATable(tbls, "length")
  ELSE DeleteRows(tbls, TableIndex(tbls, match.g[1]),
                  Kept(TableOf(tbls, match.g[1]).rows, match.g[2]))

_delete(tbls, sql) == DeleteMatched(tbls, Match(sql, ReDelete))

\* _dropTable from the test of the match on
DropMatched(tbls, match) ==
  IF ~match.ok THEN Throw(tbls, Msg("Invalid DROP TABLE syntax", <<>>))
  ELSE IF ~HasTable(tbls, match.g[1])
  THEN Throw(tbls, Msg("Table ${tableName} doesn't exist", <<match.g[1]>>))
  ELSE Return(SelectSeq(tbls, LAMBDA tb : tb.name # match.g[1]),
              [message |-> Msg("Table ${tableName} dropped", <<match.g[1]>>)])

_dropTable(tbls, sql) == DropMatched(tbls, Match(sql, ReDrop))

-----------------------------------------------------------------------------
(* Statement Dispatcher                                                    *)

\* sql.endsWith(";") ? sql.slice(0, -1) : sql
WithoutSemicolon(t) == IF endsWith(t, ";") THEN SubSeq(t, 1, Len(t) - 1) ELSE t

\* sql after sql.trim() and the removal of one trailing ";"
Normalized(sql) == WithoutSemicolon(trim(sql))

\* sql.split(" ").filter((p) => p)
Parts(sql) == filterNonEmpty(split(sql, " "))

\* the switch of execute: how the handler ends
Dispatch(tbls, sql, command) ==
  CASE command = "CREATE"   -> _createTable(tbls, sql)
    [] command = "INSERT"   -> _insert(tbls, sql)
    [] command = "SELECT"   -> _select(tbls, sql)
    [] command = "UPDATE"   -> _update(tbls, sql)
    [] command = "DELETE"   -> _delete(tbls, sql)
    [] command = "DROP"     -> _dropTable(tbls, sql)
    [] command = "SHOW"     -> _showTables(tbls)
    [] command = "DESCRIBE" -> _describe(tbls, sql)
    [] OTHER -> Return(tbls, [error |-> Msg("Unknown command: ${command}", <<command>>)])

\* the try block of execute: an error thrown by a handler is caught and
\* returned as { error: error.message }
Caught(end) ==
  [tables |-> end.tables,
   result |-> IF end.thrown THEN [error |-> end.value] ELSE end.value]

\* execute from the tokens of the statement on.  With no token parts[0] is
\* undefined and parts[0].toUpperCase() throws before the try block, so the
\* TypeError leaves execute.
Tokenized(tbls, sql, parts) ==
  IF parts = <<>>
  THEN [tables |-> tbls,
        result |-> [uncaught |-> Msg("Cannot read properties of undefined (reading 'toUpperCase')", <<>>)]]
  ELSE Caught(Dispatch(tbls, sql, toUpperCase(parts[1])))

\* execute from the normalized statement on
Statement(tbls, sql) == Tokenized(tbls, sql, Parts(sql))

\* execute(sql) as a function of the catalog: the catalog it leaves and
\* what the call gives back
Run(tbls, raw) == Statement(tbls, Normalized(raw))

-----------------------------------------------------------------------------
(* The engine                                                              *)

\* new SimpleRDBMS(), twice: no table, no history, each engine with an
\* object of its own as this.tables; no call has returned yet
Init ==
  /\ tables = <<>>
  /\ history = <<>>
  /\ result = [idle |-> TRUE]
  /\ tables2 = <<>>
  /\ history2 = <<>>
  /\ shared = FALSE
  /\ file = [exists |-> FALSE]

\* execute that records the statement as it is after trim() and without
\* its terminator
execute_recordsNormalized(sql) ==
  \E r \in {Run(tables, sql)} :
     /\ history' = Append(history, Normalized(sql))
     /\ tables' = r.tables
     /\ result' = r.result
     /\ tables2' = IF shared THEN r.tables ELSE tables2
     /\ UNCHANGED <<history2, shared, file>>

\* db.execute(sql): the raw text goes to the history, then the statement
\* runs on this.tables; result is the Result returned, or the error that
\* left the call.  What is written to the object this.tables is read by
\* every engine that holds that object.
execute(sql) ==
  \E r \in {Run(tables, sql)} :
     /\ history' = Append(history, sql)
     /\ tables' = r.tables
     /\ result' = r.result
     /\ tables2' = IF shared THEN r.tables ELSE tables2
     /\ UNCHANGED <<history2, shared, file>>

\* db2.execute(sql)
execute2(sql) ==
  \E r \in {Run(tables2, sql)} :
     /\ history2' = Append(history2, sql)
     /\ tables2' = r.tables
     /\ result' = r.result
     /\ tables' = IF shared THEN r.tables ELSE tables
     /\ UNCHANGED <<history, shared, file>>

\* toJSON(): this.tables itself, not a copy
toJSON(tbls) == tbls

\* db2.fromJSON(db.toJSON()): db2.tables becomes the object that toJSON
\* returned, which is db.tables
fromJSON ==
  /\ tables2' = toJSON(tables)
  /\ shared' = TRUE
  /\ UNCHANGED <<tables, history, result, history2, file>>

\* the decimal digits of a natural number
RECURSIVE DigitsOf(_)
DigitsOf(n) ==
  IF n < 10 THEN Ch("0123456789", n + 1)
  ELSE DigitsOf(n \div 10) \o Ch("0123456789", (n % 10) + 1)

\* JSON.stringify of a value of a row: a number that is not finite is
\* written as null; the texts stored by the inputs hold no character that
\* a JSON string escapes
JsonStringifyValue(v) ==
  CASE v.k = "number" /\ ~IsFinite(v) -> "null"
    [] v.k = "number" /\ v.v < 0      -> "-" \o DigitsOf(0 - v.v)
    [] v.k = "number"                 -> DigitsOf(v.v)
    [] v.k = "string"                 -> "\"" \o v.v \o "\""
    [] v.k = "boolean"                -> IF v.v THEN "true" ELSE "false"
    [] OTHER                          -> "null"

\* JSON.parse of the token of a value
JsonParseValue(text) ==
  IF startsWith(text, "\"") THEN Str(slice1(text))
  ELSE IF text = "null" THEN null
  ELSE IF text = "true" THEN Bool(TRUE)
  ELSE IF text = "false" THEN Bool(FALSE)
  ELSE NumberOf(text)

\* a key whose value is undefined is left out of the document
JsonStringifyRow(row) ==
  [c \in {c \in DOMAIN row : row[c] # undefined} |-> JsonStringifyValue(row[c])]

JsonParseRow(doc) == [c \in DOMAIN doc |-> JsonParseValue(doc[c])]

\* JSON.stringify(this.db.toJSON(), null, 2): the document has the
\* structure of the catalog and the token of every value of every row
JsonStringify(tbls) ==
  [i \in 1..Len(tbls) |->
     [tbls[i] EXCEPT !.rows = [j \in 1..Len(tbls[i].rows) |-> JsonStringifyRow(tbls[i].rows[j])]]]

\* JSON.parse of the document
JsonParse(doc) ==
  [i \in 1..Len(doc) |->
     [doc[i] EXCEPT !.rows = [j \in 1..Len(doc[i].rows) |-> JsonParseRow(doc[i].rows[j])]]]

\* the file names that .save and .load are given: none, and the one file
Filenames == {"", "db.json"}

\* saveDatabase(filename) of the REPL that holds db: without a file name it
\* prints the usage; otherwise it writes the document of db.toJSON()
saveDatabase(filename) ==
  IF filename = "" THEN UNCHANGED vars
  ELSE /\ file' = [exists |-> TRUE, text |-> JsonStringify(toJSON(tables))]
       /\ UNCHANGED <<tables, history, result, tables2, history2, shared>>

\* saveDatabase(filename) of the REPL that holds db2
saveDatabase2(filename) ==
  IF filename = "" THEN UNCHANGED vars
  ELSE /\ file' = [exists |-> TRUE, text |-> JsonStringify(toJSON(tables2))]
       /\ UNCHANGED <<tables, history, result, tables2, history2, shared>>

\* loadDatabase(filename) of the REPL that holds db: without a file name
\* and without the file nothing happens; otherwise this.db.fromJSON gets
\* the object that JSON.parse builds from the file as it is now
loadDatabase(filename) ==
  IF filename = "" \/ ~file.exists THEN UNCHANGED vars
  ELSE /\ tables' = JsonParse(file.text)
       /\ shared' = FALSE
       /\ UNCHANGED <<history, result, tables2, history2, file>>

\* loadDatabase(filename) of the REPL that holds db2
loadDatabase2(filename) ==
  IF filename = "" \/ ~file.exists THEN UNCHANGED vars
  ELSE /\ tables2' = JsonParse(file.text)
       /\ shared' = FALSE
       /\ UNCHANGED <<tables, history, result, history2, file>>

-----------------------------------------------------------------------------
(* Statements submitted to the engine                                      *)

\* arr.join(sep)
RECURSIVE Join(_, _)
Join(arr, sep) ==
  IF arr = <<>> THEN ""
  ELSE IF Len(arr) = 1 THEN arr[1]
  ELSE arr[1] \o sep \o Join(Tail(arr), sep)

\* the statements of the scenario of the basic-usage example
CreateUsers == "CREATE TABLE users (id INT PRIMARY KEY, name TEXT, email TEXT UNIQUE, age INT)"

InsertAlice == "INSERT INTO users VALUES (1,'Alice','a@x.com',25)"

InsertBob == "INSERT INTO users VALUES (2,'Bob','b@x.com',30)"

SelectAge30 == "SELECT name, age FROM users WHERE age >= 30"

\* a third user with the e-mail address of the first
InsertCarl == "INSERT INTO users VALUES (3,'Carl','a@x.com',41)"

\* a user written with a blank after each comma
InsertDan == "INSERT INTO users VALUES (4, 'Dan', 'd@x.com', 50)"

Commands == {CreateUsers, InsertAlice, InsertBob, SelectAge30, InsertCarl, InsertDan,
             "", ";", "  "}

\* UPDATE <table> SET <col>=<lit> [WHERE <cond>]; cond "" is no WHERE
UpdateText(u) ==
  "UPDATE " \o u.table \o " SET " \o u.col \o "=" \o u.lit \o
  (IF u.cond = "" THEN "" ELSE " WHERE " \o u.cond)

UpdateInputs ==
  {[table |-> "users", col |-> "age", lit |-> "1", cond |-> "id=2"],
   [table |-> "users", col |-> "age", lit |-> "7", cond |-> ""],
   [table |-> "users", col |-> "id",  lit |-> "1", cond |-> ""],
   [table |-> "users", col |-> "zip", lit |-> "9", cond |-> ""]}

UpdateCommands ==
  {CreateUsers, InsertAlice, InsertBob} \cup {UpdateText(u) : u \in UpdateInputs}
  \cup {"DELETE FROM users WHERE id=1", "DROP TABLE users"}

\* CREATE TABLE <name> (<defs>)
CreateText(c) == "CREATE TABLE " \o c.name \o " (" \o c.defs \o ")"

CreateInputs ==
  {[name |-> "t", defs |-> "id INT PRIMARY KEY, a TEXT"],
   [name |-> "t", defs |-> "b REAL UNIQUE"],
   [name |-> "t", defs |-> "id"]}

\* INSERT INTO <table> VALUES (<lits joined by sep>)
InsertText(in) == "INSERT INTO " \o in.table \o " VALUES (" \o Join(in.lits, in.sep) \o ")"

InsertInputs ==
  {[table |-> "t", lits |-> <<"1", "'x,y'">>,      sep |-> ", "],
   [table |-> "t", lits |-> <<"2", "'b'">>,        sep |-> ","],
   [table |-> "t", lits |-> <<"1", "'z'">>,        sep |-> ", "],
   [table |-> "t", lits |-> <<"3">>,               sep |-> ","],
   [table |-> "t", lits |-> <<"4", "'p'", "'q'">>, sep |-> ","],
   [table |-> "t", lits |-> <<"'1'", "'s'">>,      sep |-> ", "]}

InsertCommands ==
  {CreateText(c) : c \in {c \in CreateInputs : c.defs # "id"}}
  \cup {InsertText(in) : in \in InsertInputs}
  \cup {"DELETE FROM t WHERE id = 1"}

\* statements that fail in every way the handlers can fail, with the
\* statements that build the table they fail on
ErrorCommands ==
  {CreateText(c) : c \in CreateInputs}
  \cup {"INSERT INTO t VALUES (1, 'x')",
        "INSERT INTO t VALUES (1, 'y')",
        "INSERT INTO t VALUES (2)",
        "INSERT t",
        "CREATE TABLE t (primaryKey INT UNIQUE, a TEXT)",
        "UPDATE t SET a='k', b",
        "UPDATE u SET a=1",
        "DELETE FROM u",
        "DROP TABLE u",
        "SELECT * FROM u",
        "DESCRIBE u",
        "EXPLAIN t"}

\* the statements that name a table, after the statements that build it
\* and drop it; the names are a table's and one that every object inherits
DropNames == {"t", "toString"}

DropText(name) == "DROP TABLE " \o name

\* SELECT, INSERT, UPDATE, DELETE and DESCRIBE on the table of that name
Naming(name) ==
  {"SELECT * FROM " \o name,
   "INSERT INTO " \o name \o " VALUES (1, 'x')",
   "UPDATE " \o name \o " SET a = 2 WHERE id = 1",
   "DELETE FROM " \o name,
   "DESCRIBE " \o name}

DropCommands ==
  {"CREATE TABLE t (id INT PRIMARY KEY, a TEXT)"}
  \cup {DropText(name) : name \in DropNames}
  \cup Naming("t") \cup {"DESCRIBE toString"}

\* DELETE FROM <table> [WHERE <col><op><lit>]; op "" is no WHERE, val is
\* the value that lit denotes
DeleteText(d) ==
  "DELETE FROM " \o d.table \o
  (IF d.op = "" THEN "" ELSE " WHERE " \o d.col \o d.op \o d.lit)

DeleteInputs ==
  {[table |-> "f", col |-> "flag", op |-> "=",   lit |-> "false", val |-> Bool(FALSE)],
   [table |-> "f", col |-> "id",   op |-> " = ", lit |-> "2",     val |-> Num(2)],
   [table |-> "f", col |-> "",     op |-> "",    lit |-> "",      val |-> null]}

\* a table with a flag and rows that hold false, true and 0 in it
DeleteCommands ==
  {"CREATE TABLE f (id INT PRIMARY KEY, flag BOOLEAN)",
   "INSERT INTO f VALUES (1, false)",
   "INSERT INTO f VALUES (2, true)",
   "INSERT INTO f VALUES (3, 0)"}
  \cup {DeleteText(d) : d \in DeleteInputs}

\* SELECT * FROM <table> [WHERE age > <n>]; where FALSE is no WHERE
SelectText(q) ==
  "SELECT * FROM " \o q.table \o (IF q.where THEN " WHERE age > " \o q.lit ELSE "")

SelectInputs ==
  {[table |-> "p", where |-> TRUE,  lit |-> "25", n |-> 25],
   [table |-> "p", where |-> FALSE, lit |-> "",   n |-> 0]}

\* a table with ages 30, 25 and null, and an UPDATE that writes the text
\* 31 into the age of every row
SelectCommands ==
  {"CREATE TABLE p (id INT PRIMARY KEY, age INT)",
   "INSERT INTO p VALUES (1, 30)",
   "INSERT INTO p VALUES (2, 25)",
   "INSERT INTO p VALUES (3, null)",
   "UPDATE p SET age='31'"}
  \cup {SelectText(q) : q \in SelectInputs}

\* a catalog to export: texts, a negative number, null and Infinity
SnapshotCommands ==
  { "CREATE TABLE s (id INT PRIMARY KEY, v TEXT)",
    "INSERT INTO s VALUES (1, 'a')",
    "INSERT INTO s VALUES (2, -7)",
    "INSERT INTO s VALUES (3, null)",
    "INSERT INTO s VALUES (4, Infinity)" }

\* calls that succeed, return an error and fail, written with blanks
\* around the statement and with the terminator
HistoryCommands ==
  { "CREATE TABLE h (id INT PRIMARY KEY);",
    "  INSERT INTO h VALUES (1)  ",
    "INSERT INTO h VALUES (1);",
    " SHOW TABLES ; ",
    "EXPLAIN h",
    "" }

\* statements of every kind, with those that the engine refuses
ResultCommands ==
  { "CREATE TABLE r (id INT PRIMARY KEY, a TEXT)",
    "INSERT INTO r VALUES (1, 'x')",
    "INSERT INTO r VALUES (2, 'y')",
    "SELECT * FROM r",
    "SELECT a FROM r WHERE id > 1",
    "UPDATE r SET a = 'z' WHERE id = 1",
    "SHOW TABLES",
    "DESCRIBE r",
    "EXPLAIN r",
    ";" }

\* <verb> n WHERE age <op> <lit>, verb being SELECT * FROM or DELETE FROM
NullText(q) == q.verb \o " n WHERE age " \o q.op \o " " \o q.lit

NullInputs ==
  [verb : {"SELECT * FROM", "DELETE FROM"}, op : {"<", ">", "<=", ">="}, lit : {"0", "5", "null"}]

\* a table with a row whose age is null and a row whose age is 3
NullCommands ==
  {"CREATE TABLE n (id INT PRIMARY KEY, age INT)",
   "INSERT INTO n VALUES (1, null)",
   "INSERT INTO n VALUES (2, 3)"}
  \cup {NullText(q) : q \in NullInputs}

\* INSERT INTO k VALUES (<lit>, 'x'); val is the value that lit denotes
KeyText(in) == "INSERT INTO k VALUES (" \o in.lit \o ", 'x')"

\* keys that are equal under == and not identical: 1 and true, 0 and false
KeyInputs ==
  {[lit |-> "1",     val |-> Num(1)],
   [lit |-> "true",  val |-> Bool(TRUE)],
   [lit |-> "0",     val |-> Num(0)],
   [lit |-> "false", val |-> Bool(FALSE)]}

KeyCommands ==
  {"CREATE TABLE k (id INT PRIMARY KEY, a TEXT)"} \cup {KeyText(in) : in \in KeyInputs}

\* INSERT INTO o VALUES (<lits>); vals are the values that the lits denote
OrderText(in) == "INSERT INTO o VALUES (" \o Join(in.lits, ", ") \o ")"

OrderInputs ==
  {[lits |-> <<"1", "10">>, vals |-> <<Num(1), Num(10)>>],
   [lits |-> <<"2", "20">>, vals |-> <<Num(2), Num(20)>>],
   [lits |-> <<"3", "30">>, vals |-> <<Num(3), Num(30)>>]}

OrderUpdate == "UPDATE o SET n = 99 WHERE id = 2"

OrderDelete == "DELETE FROM o WHERE id = 1"

OrderSelect == "SELECT * FROM o"

\* inserts, an UPDATE, a DELETE and the SELECT without WHERE
OrderCommands ==
  {"CREATE TABLE o (id INT PRIMARY KEY, n INT)", OrderUpdate, OrderDelete, OrderSelect}
  \cup {OrderText(in) : in \in OrderInputs}

\* the statements of examples/basic-usage.js and of start() of the REPL:
\* the CREATE TABLE is a template literal of several lines
ExampleCreate ==
  "\n  CREATE TABLE users (\n    id INT PRIMARY KEY,\n    name TEXT,\n    email TEXT UNIQUE,\n    age INT\n  )\n"

\* the same statement on one line
ExampleCreateOneLine ==
  "CREATE TABLE users (id INT PRIMARY KEY, name TEXT, email TEXT UNIQUE, age INT)"

ExampleInsertAlice == "INSERT INTO users VALUES (1, 'Alice', 'alice@example.com', 25)"

ExampleInsertBob == "INSERT INTO users VALUES (2, 'Bob', 'bob@example.com', 30)"

ExampleSelect == "SELECT * FROM users"

ExampleCommands == {ExampleCreate, ExampleInsertAlice, ExampleInsertBob, ExampleSelect}

\* SELECT * FROM w WHERE age<op>30, the condition written without blanks
WhereText(op) == "SELECT * FROM w WHERE age" \o op \o "30"

WhereOperators == {"<=", "!=", "<>", "="}

\* a table with the ages 30 and 31
WhereCommands ==
  {"CREATE TABLE w (id INT PRIMARY KEY, age INT)",
   "INSERT INTO w VALUES (1, 30)",
   "INSERT INTO w VALUES (2, 31)"}
  \cup {WhereText(op) : op \in WhereOperators}

\* INSERT, UPDATE and DELETE statements on the tables a and b: with and
\* without WHERE, an UPDATE of a column that is not declared, an INSERT
\* with a value too few
FrameInputs ==
  {[verb |-> "INSERT", table |-> "a", text |-> "INSERT INTO a VALUES (1, 5)"],
   [verb |-> "INSERT", table |-> "a", text |-> "INSERT INTO a VALUES (2, 6)"],
   [verb |-> "INSERT", table |-> "a", text |-> "INSERT INTO a VALUES (2)"],
   [verb |-> "INSERT", table |-> "b", text |-> "INSERT INTO b VALUES (1, 7)"],
   [verb |-> "UPDATE", table |-> "a", text |-> "UPDATE a SET x = 9"],
   [verb |-> "UPDATE", table |-> "a", text |-> "UPDATE a SET z = 1 WHERE id = 1"],
   [verb |-> "DELETE", table |-> "a", text |-> "DELETE FROM a WHERE id = 1"],
   [verb |-> "DELETE", table |-> "b", text |-> "DELETE FROM b"]}

FrameCommands ==
  {"CREATE TABLE a (id INT PRIMARY KEY, x INT)",
   "CREATE TABLE b (id INT PRIMARY KEY, y INT UNIQUE)"}
  \cup {in.text : in \in FrameInputs}

\* the statements that read, those that fail included
ReadCommands ==
  {"SELECT * FROM d",
   "SELECT a FROM d WHERE id > 1",
   "SELECT * FROM q",
   "SELECT d",
   "SHOW TABLES",
   "DESCRIBE d",
   "DESCRIBE q"}

\* the reads and the statements that build the table they read
ReadWriteCommands ==
  {"CREATE TABLE d (id INT PRIMARY KEY, a TEXT)",
   "INSERT INTO d VALUES (1, 'x')",
   "INSERT INTO d VALUES (2, 'y')"}
  \cup ReadCommands

\* two definitions of table c: columns, primaryKey and unique are what the
\* definition declares
RecreateInputs ==
  {[text       |-> "CREATE TABLE c (id INT PRIMARY KEY, a TEXT UNIQUE)",
    columns    |-> <<[name |-> "id", type |-> "INT"], [name |-> "a", type |-> "TEXT"]>>,
    primaryKey |-> "id",
    unique     |-> {"a"}],
   [text       |-> "CREATE TABLE c (k INT, b REAL)",
    columns    |-> <<[name |-> "k", type |-> "INT"], [name |-> "b", type |-> "REAL"]>>,
    primaryKey |-> "",
    unique     |-> {}]}

RecreateInsert == "INSERT INTO c VALUES (1, 5)"

RecreateDrop == "DROP TABLE c"

RecreateCommands == {in.text : in \in RecreateInputs} \cup {RecreateInsert, RecreateDrop}

-----------------------------------------------------------------------------
(* Specifications: the engine under each set of statements.  The number    *)
(* of calls is bounded; nothing else is.                                   *)

MaxHistory == 4

MaxErrHistory == 3

MaxDeleteHistory == 5

MaxSelectHistory == 5

MaxSnapshotCalls == 3

MaxNullHistory == 3

MaxOrderHistory == 5

MaxRecreateHistory == 5

Next == \E sql \in Commands : Len(history) < MaxHistory /\ execute(sql)

Spec == Init /\ [][Next]_vars

NextUpdate == \E sql \in UpdateCommands : Len(history) < MaxHistory /\ execute(sql)

SpecUpdate == Init /\ [][NextUpdate]_vars

NextInsert == \E sql \in InsertCommands : Len(history) < MaxHistory /\ execute(sql)

SpecInsert == Init /\ [][NextInsert]_vars

NextErrors == \E sql \in ErrorCommands : Len(history) < MaxErrHistory /\ execute(sql)

SpecErrors == Init /\ [][NextErrors]_vars

NextDrop == \E sql \in DropCommands : Len(history) < MaxHistory /\ execute(sql)

SpecDrop == Init /\ [][NextDrop]_vars

NextDelete == \E sql \in DeleteCommands : Len(history) < MaxDeleteHistory /\ execute(sql)

SpecDelete == Init /\ [][NextDelete]_vars

NextSelect == \E sql \in SelectCommands : Len(history) < MaxSelectHistory /\ execute(sql)

SpecSelect == Init /\ [][NextSelect]_vars

NextResult == \E sql \in ResultCommands : Len(history) < MaxHistory /\ execute(sql)

SpecResult == Init /\ [][NextResult]_vars

NextNull == \E sql \in NullCommands : Len(history) < MaxNullHistory /\ execute(sql)

SpecNull == Init /\ [][NextNull]_vars

NextKey == \E sql \in KeyCommands : Len(history) < MaxHistory /\ execute(sql)

SpecKey == Init /\ [][NextKey]_vars

NextOrder == \E sql \in OrderCommands : Len(history) < MaxOrderHistory /\ execute(sql)

SpecOrder == Init /\ [][NextOrder]_vars

NextExample == \E sql \in ExampleCommands : Len(history) < MaxHistory /\ execute(sql)

SpecExample == Init /\ [][NextExample]_vars

NextWhere == \E sql \in WhereCommands : Len(history) < MaxHistory /\ execute(sql)

SpecWhere == Init /\ [][NextWhere]_vars

NextFrame == \E sql \in FrameCommands : Len(history) < MaxHistory /\ execute(sql)

SpecFrame == Init /\ [][NextFrame]_vars

NextRead == \E sql \in ReadWriteCommands : Len(history) < MaxHistory /\ execute(sql)

SpecRead == Init /\ [][NextRead]_vars

NextRecreate ==
  \E sql \in RecreateCommands : Len(history) < MaxRecreateHistory /\ execute(sql)

SpecRecreate == Init /\ [][NextRecreate]_vars

NextHistory ==
  \/ \E sql \in HistoryCommands : Len(history) < MaxHistory /\ execute(sql)
  \/ fromJSON

SpecHistory == Init /\ [][NextHistory]_vars

\* the calls of execute of the two engines together
Calls == Len(history) + Len(history2)

NextSnapshot ==
  \/ \E sql \in SnapshotCommands : Calls < MaxSnapshotCalls /\ execute(sql)
  \/ \E sql \in SnapshotCommands : Calls < MaxSnapshotCalls /\ execute2(sql)
  \/ fromJSON
  \/ \E filename \in Filenames : saveDatabase(filename)
  \/ \E filename \in Filenames : saveDatabase2(filename)
  \/ \E filename \in Filenames : loadDatabase(filename)
  \/ \E filename \in Filenames : loadDatabase2(filename)

SpecSnapshot == Init /\ [][NextSnapshot]_vars

-----------------------------------------------------------------------------
(* Properties                                                              *)

\* the step is the call execute(sql)
Ran(sql) == history' = Append(history, sql)

\* the statement of the last call
LastCommand == history[Len(history)]

IsError(res) == "error" \in DOMAIN res

IsMessage(res) == "message" \in DOMAIN res

\* C1: UPDATE t SET c=v WHERE cond overwrites column c with v in exactly the
\* rows that satisfy cond, leaves every other row as it was and reports the
\* number of rows that satisfy cond; with no WHERE it updates every row.
C1_UpdateOnlyMatchingRows ==
  [][\A u \in UpdateInputs :
       (Ran(UpdateText(u)) /\ HasTable(tables, u.table)) =>
         LET old    == TableOf(tables, u.table).rows
             new    == TableOf(tables', u.table).rows
             hit(r) == u.cond = "" \/ _evaluateWhere(old[r], u.cond)
             v      == [c \in {u.col} |-> _parseValue(u.lit)]
         IN  /\ Len(new) = Len(old)
             /\ \A r \in 1..Len(old) :
                  new[r] = IF hit(r) THEN Assign(old[r], v) ELSE old[r]
             /\ IsMessage(result')
             /\ result'.message.args = <<Cardinality({r \in 1..Len(old) : hit(r)})>>]_vars

\* C2: a quoted literal of INSERT is stored as the text between the quotes,
\* and the scenario (CREATE users, insert Alice and Bob, SELECT name, age
\* ... WHERE age >= 30) returns exactly [{name: "Bob", age: 30}], count 1.
C2_QuotedLiteralStoredUnquoted ==
  /\ history = <<CreateUsers, InsertAlice>> =>
       tables[1].rows = <<[id |-> Num(1), name |-> Str("Alice"),
                           email |-> Str("a@x.com"), age |-> Num(25)]>>
  /\ history = <<CreateUsers, InsertDan>> =>
       tables[1].rows = <<[id |-> Num(4), name |-> Str("Dan"),
                           email |-> Str("d@x.com"), age |-> Num(50)]>>
  /\ history = <<CreateUsers, InsertAlice, InsertBob, SelectAge30>> =>
       /\ result.data = <<[name |-> Str("Bob"), age |-> Num(30)]>>
       /\ result.count = 1

\* C4: execute returns a Result for every command text, the empty string,
\* blank text and a lone ";" included; no error leaves the call.
C4_ExecuteNeverRaises == "uncaught" \notin DOMAIN result

\* the values that the rows of a table hold in column col
ColumnValues(table, col) == [r \in 1..Len(table.rows) |-> Get(table.rows[r], col)]

\* no two entries of a sequence of values are the same value
Distinct(vals) == \A i, j \in 1..Len(vals) : i # j => ~StrictEq(vals[i], vals[j])

\* C5: in every reachable state, whatever CREATE, INSERT, UPDATE, DELETE and
\* DROP statements ran, no two rows of a table that declares a primary key
\* hold the same primary-key value.
C5_PrimaryKeyUnique ==
  \A t \in 1..Len(tables) :
     tables[t].constraints.primaryKey # "" =>
       Distinct(ColumnValues(tables[t], tables[t].constraints.primaryKey))

\* C6: uniqueness of a UNIQUE column is enforced at insert time: in every
\* state reached by CREATE and INSERT statements no two rows hold the same
\* value in such a column.
C6_UniqueColumnsUnique ==
  \A t \in 1..Len(tables) : \A col \in tables[t].constraints.unique :
     Distinct(ColumnValues(tables[t], col))

\* C7: every row of every table has exactly the declared column names of
\* its table as keys, after any INSERT, UPDATE and DELETE, an UPDATE that
\* sets a column the table does not declare included.
C7_RowsHaveTableColumns ==
  \A t \in 1..Len(tables) : \A r \in 1..Len(tables[t].rows) :
     DOMAIN tables[t].rows[r] = {tables[t].columns[i].name : i \in 1..Len(tables[t].columns)}

\* C3: a call that returns an error Result leaves the catalog (every
\* table's columns, constraints and rows) exactly as it was before the call.
C3_ErrorLeavesCatalog == [][IsError(result') => tables' = tables]_vars

\* C3 witness: a statement failed inside its handler on a table that holds rows
C3_Witness ==
  /\ IsError(result)
  /\ result.error.fmt = "Cannot read properties of undefined (reading 'startsWith')"
  /\ HasTable(tables, "t")
  /\ TableOf(tables, "t").rows # <<>>

DuplicateKeyError(res) == IsError(res) /\ res.error.fmt = "Duplicate primary key: ${pkValue}"

CountError(res) ==
  IsError(res) /\ res.error.fmt = "Expected ${columnNames.length} values, got ${values.length}"

\* C8: an INSERT whose primary-key value is the primary-key value of a row
\* of the table returns a duplicate-key error and leaves the rows of the
\* table (count, order and contents) as they were.
C8_DuplicateKeyRejected ==
  [][\A in \in InsertInputs :
       (Ran(InsertText(in)) /\ HasTable(tables, in.table)) =>
         LET table  == TableOf(tables, in.table)
             pkCol  == table.constraints.primaryKey
             values == _parseValues(Join(in.lits, in.sep))
             i      == indexOf(ColumnNames(table), pkCol)
         IN  (/\ pkCol # ""
              /\ Len(values) = Len(table.columns)
              /\ \E r \in 1..Len(table.rows) : StrictEq(table.rows[r][pkCol], values[i]))
             => (DuplicateKeyError(result') /\ tables' = tables)]_vars

\* C8 witness: an INSERT was refused as a duplicate of one of two rows
C8_Witness ==
  /\ DuplicateKeyError(result)
  /\ HasTable(tables, "t")
  /\ Len(TableOf(tables, "t").rows) = 2

\* C9: an INSERT that supplies a number of literals other than the number
\* of declared columns returns an error and adds no row; it is accepted
\* only with exactly one literal for each declared column.
C9_InsertArity ==
  [][\A in \in InsertInputs :
       (Ran(InsertText(in)) /\ HasTable(tables, in.table)) =>
         LET table == TableOf(tables, in.table)
             n     == Len(table.columns)
         IN  /\ Len(in.lits) # n => (CountError(result') /\ tables' = tables)
             /\ Len(in.lits) = n => ~CountError(result')
             /\ IsMessage(result') =>
                  /\ Len(in.lits) = n
                  /\ Len(TableOf(tables', in.table).rows) = Len(table.rows) + 1]_vars

\* C9 witness: an INSERT with too few or too many literals was refused on
\* a table that holds the row of a literal with a comma between its quotes
C9_Witness ==
  /\ CountError(result)
  /\ HasTable(tables, "t")
  /\ \E r \in 1..Len(TableOf(tables, "t").rows) :
        Get(TableOf(tables, "t").rows[r], "a") = Str(" 'x,y'")

\* C10: CREATE TABLE with the name of an existing table returns an error
\* and leaves that table's columns, constraints and rows as they were,
\* whatever column definitions the statement carries.
C10_CreateExistingRejected ==
  [][\A c \in CreateInputs :
       (Ran(CreateText(c)) /\ HasTable(tables, c.name)) =>
         /\ IsError(result')
         /\ result'.error.fmt = "Table ${tableName} already exists"
         /\ tables' = tables]_vars

\* C10 witness: a CREATE with other column definitions was refused for a
\* table that holds rows
C10_Witness ==
  /\ history # <<>>
  /\ LastCommand = CreateText([name |-> "t", defs |-> "b REAL UNIQUE"])
  /\ IsError(result)
  /\ result.error.fmt = "Table ${tableName} already exists"
  /\ HasTable(tables, "t")
  /\ TableOf(tables, "t").constraints.primaryKey = "id"
  /\ TableOf(tables, "t").rows # <<>>

NotFound(res, name) ==
  IsError(res) /\ res.error = Msg("Table ${tableName} doesn't exist", <<name>>)

\* C11: a DROP TABLE of a table of the catalog removes it; while no table
\* of a name is in the catalog (after its DROP, until it is created again,
\* or because it never was created) every SELECT, INSERT, UPDATE, DELETE,
\* DESCRIBE and DROP naming it returns the not-found error and leaves the
\* catalog as it was.
C11_DroppedTableNotFound ==
  [][\A name \in DropNames :
       /\ (Ran(DropText(name)) /\ IsTable(tables, name)) =>
            (IsMessage(result') /\ ~IsTable(tables', name))
       /\ ((\E sql \in Naming(name) \cup {DropText(name)} : Ran(sql)) /\ ~IsTable(tables, name)) =>
            (NotFound(result', name) /\ tables' = tables)]_vars

\* the k-th smallest member of a set of numbers
Kth(S, k) == CHOOSE i \in S : Cardinality({j \in S : j <= i}) = k

\* the rows of a sequence at the places of S, in their order
RowsAt(rows, S) == [k \in 1..Cardinality(S) |-> rows[Kth(S, k)]]

\* C12: DELETE FROM t WHERE col = lit removes exactly the rows whose col
\* equals the value of lit, keeps the other rows in their order and reports
\* the number of rows removed; with no WHERE it removes every row.  The
\* columns and constraints of the table stay, and DESCRIBE t succeeds
\* after the statement.
C12_DeleteExactlyMatching ==
  [][\A d \in DeleteInputs :
       (Ran(DeleteText(d)) /\ IsTable(tables, d.table)) =>
         LET old  == TableOf(tables, d.table)
             new  == TableOf(tables', d.table)
             gone == {r \in 1..Len(old.rows) :
                        d.op = "" \/ LooseEq(Get(old.rows[r], d.col), d.val)}
         IN  /\ IsTable(tables', d.table)
             /\ new.rows = RowsAt(old.rows, (1..Len(old.rows)) \ gone)
             /\ d.op = "" => new.rows = <<>>
             /\ result' = [message |-> Msg("${deleted} row(s) deleted", <<Cardinality(gone)>>)]
             /\ new.columns = old.columns
             /\ new.constraints = old.constraints
             /\ Run(tables', "DESCRIBE " \o d.table).result.count = Len(old.columns)]_vars

\* C12 witness: a DELETE with WHERE has removed the second of three rows
C12_Witness ==
  /\ history # <<>>
  /\ LastCommand = "DELETE FROM f WHERE id = 2"
  /\ result = [message |-> Msg("${deleted} row(s) deleted", <<1>>)]
  /\ IsTable(tables, "f")
  /\ TableOf(tables, "f").rows = <<[id |-> Num(1), flag |-> Bool(FALSE)],
                                   [id |-> Num(3), flag |-> Num(0)]>>

\* the value is a number greater than n
NumberGreater(v, n) == v.k = "number" /\ v.v > n

\* the value, taken as a number, is greater than n: a number as itself, a
\* text by the number it spells (none for a text that spells no number),
\* true and false as 1 and 0, null as 0
CoercedGreater(v, n) ==
  \/ v.k = "number" /\ v.v > n
  \/ v.k = "string" /\ NumberOf(v.v).k = "number" /\ NumberOf(v.v).v > n
  \/ v.k = "boolean" /\ (IF v.v THEN 1 ELSE 0) > n
  \/ v.k = "null" /\ 0 > n

\* the declared columns of a row
Declared(table, row) == [col \in {table.columns[i].name : i \in 1..Len(table.columns)} |-> row[col]]

\* SELECT * FROM t [WHERE age > n] returns the rows at the places of S
SelectReturns(table, res, S) ==
  /\ res = [data    |-> [k \in 1..Cardinality(S) |-> Declared(table, table.rows[Kth(S, k)])],
            count   |-> Cardinality(S),
            columns |-> ColumnNames(table)]

\* C13: SELECT * FROM t WHERE age > 25 returns exactly the rows of t whose
\* age is a number greater than 25, in the table's row order, each with all
\* declared columns, and count is the number of rows returned; with no
\* WHERE it returns every row.
C13_SelectNumbersGreater ==
  [][\A q \in SelectInputs :
       (Ran(SelectText(q)) /\ IsTable(tables, q.table)) =>
         LET table == TableOf(tables, q.table)
         IN  SelectReturns(table, result',
                           {r \in 1..Len(table.rows) :
                              ~q.where \/ NumberGreater(Get(table.rows[r], "age"), q.n)})]_vars

\* C13 amended: SELECT * FROM t WHERE age > 25 returns exactly the rows of
\* t whose age, taken as a number the way the comparison takes it, is
\* greater than 25 (a row whose age is the text 31 included), in the
\* table's row order, each with all declared columns, and count is the
\* number of rows returned; with no WHERE it returns every row; the
\* catalog is left as it was.
C13_SelectCoercedGreater ==
  [][\A q \in SelectInputs :
       (Ran(SelectText(q)) /\ IsTable(tables, q.table)) =>
         LET table == TableOf(tables, q.table)
         IN  /\ SelectReturns(table, result',
                              {r \in 1..Len(table.rows) :
                                 ~q.where \/ CoercedGreater(Get(table.rows[r], "age"), q.n)})
             /\ tables' = tables]_vars

\* C13 witness: the SELECT has returned one of two rows, the one with a
\* text as its age
C13_Witness ==
  /\ history # <<>>
  /\ LastCommand = "SELECT * FROM p WHERE age > 25"
  /\ "data" \in DOMAIN result
  /\ result.count = 1
  /\ result.data[1].age = Str("31")
  /\ Len(TableOf(tables, "p").rows) = 2

\* the Result of `SELECT * FROM name` on the catalog tbls
SelectAll(tbls, name) == Run(tbls, "SELECT * FROM " \o name).result

\* the catalog that an engine has after it imports the file
Imported(f) == JsonParse(f.text)

\* C14: snapshot round trip: after the catalog of db is exported with
\* toJSON and imported with fromJSON by db2, `SELECT * FROM t` on db2 gives
\* for every table t of db the rows, the columns and the order that it
\* gives on db before the export; and so it is for the file that an engine
\* saves: the engine that loads it has the catalog of the file, on which
\* every SELECT gives what it gave on the saving engine when it saved.
C14_SnapshotRoundTrip ==
  [][/\ fromJSON =>
          \A i \in 1..Len(tables) :
             SelectAll(tables2', tables[i].name) = SelectAll(tables, tables[i].name)
     /\ saveDatabase("db.json") =>
          \A i \in 1..Len(tables) :
             SelectAll(Imported(file'), tables[i].name) = SelectAll(tables, tables[i].name)
     /\ saveDatabase2("db.json") =>
          \A i \in 1..Len(tables2) :
             SelectAll(Imported(file'), tables2[i].name) = SelectAll(tables2, tables2[i].name)
     /\ (file.exists /\ loadDatabase("db.json")) => tables' = Imported(file)
     /\ (file.exists /\ loadDatabase2("db.json")) => tables2' = Imported(file)]_vars

\* C15: engine instances are independent: a statement executed on one
\* instance never changes the catalog seen through the other, also after
\* db2 has imported the snapshot that db exported.
C15_InstancesIndependent ==
  [][/\ (history' # history) => (tables2' = tables2)
     /\ (history2' # history2) => (tables' = tables)]_vars

\* C16: the history is append-only and complete: every call of execute,
\* whether it succeeds, returns an error or fails, appends the raw string
\* it was given as the last entry, and no step removes or rewrites an entry.
C16_HistoryAppendOnly ==
  [][/\ \/ history' = history
        \/ \E sql \in HistoryCommands :
              /\ history' = Append(history, sql)
              /\ result' = Run(tables, sql).result
     /\ (result' # result \/ tables' # tables) => history' # history]_vars

\* a call that failed, one that returned an error and one that succeeded
\* are in the history as they were written
C16_Witness ==
  /\ history = <<"", "  INSERT INTO h VALUES (1)  ", " SHOW TABLES ; ">>
  /\ result = [data |-> <<>>, count |-> 0]

\* the last call of execute returned a Result
Returned == "idle" \notin DOMAIN result /\ "uncaught" \notin DOMAIN result

\* C17: every Result returned by execute carries either error alone, or
\* success fields (message, data, count, columns) and no error; and when
\* data is present, count is the number of rows in data.
C17_ResultDiscriminated ==
  Returned =>
    /\ \/ DOMAIN result = {"error"}
       \/ /\ DOMAIN result # {}
          /\ DOMAIN result \subseteq {"message", "data", "count", "columns"}
    /\ "data" \in DOMAIN result =>
         "count" \in DOMAIN result /\ result.count = Len(result.data)

\* a SELECT with a WHERE has returned one of the two rows of the table, in
\* one column
C17_Witness ==
  /\ history # <<>>
  /\ LastCommand = "SELECT a FROM r WHERE id > 1"
  /\ DOMAIN result = {"data", "count", "columns"}
  /\ result.count = 1
  /\ Len(TableOf(tables, "r").rows) = 2

\* the rows of the sequence whose age is null
NullAged(rows) == SelectSeq(rows, LAMBDA row : row.age = null)

\* C18: an ordering comparison (<, >, <=, >=) in which the value of the
\* row's column or the literal is null is false: a SELECT returns no row
\* whose age is null and a DELETE deletes none, and neither finds a row
\* when the literal is null.
C18_NullOrderingFalse ==
  [][\A q \in NullInputs :
       (Ran(NullText(q)) /\ IsTable(tables, "n")) =>
         IF q.verb = "SELECT * FROM"
         THEN /\ "data" \in DOMAIN result'
              /\ NullAged(result'.data) = <<>>
              /\ q.lit = "null" => result'.data = <<>>
         ELSE /\ NullAged(TableOf(tables', "n").rows) = NullAged(TableOf(tables, "n").rows)
              /\ q.lit = "null" => tables' = tables]_vars

\* C19: the duplicate-primary-key check of INSERT uses the coercive
\* equality of the WHERE `=` operator: an INSERT whose key equals the key of
\* an existing row under that equality (1 and true, 0 and false) is
\* rejected and leaves the catalog as it was.
C19_KeyCheckCoercive ==
  [][\A in \in KeyInputs :
       (/\ Ran(KeyText(in))
        /\ IsTable(tables, "k")
        /\ \E r \in 1..Len(TableOf(tables, "k").rows) :
              LooseEq(TableOf(tables, "k").rows[r].id, in.val))
       => (IsError(result') /\ tables' = tables)]_vars

\* the rows of table o
OrderRows(tbls) == TableOf(tbls, "o").rows

\* C20: row order is insertion order: a successful INSERT adds exactly one
\* row after all existing rows, with the i-th literal in the i-th declared
\* column; UPDATE keeps every row at its place and DELETE keeps the
\* surviving rows in their order; SELECT without WHERE lists the rows in
\* the order of the table.
C20_RowsInInsertionOrder ==
  [][IsTable(tables, "o") =>
       /\ \A in \in OrderInputs :
            (Ran(OrderText(in)) /\ IsMessage(result')) =>
               OrderRows(tables') =
                 Append(OrderRows(tables), [id |-> in.vals[1], n |-> in.vals[2]])
       /\ Ran(OrderUpdate) =>
            /\ Len(OrderRows(tables')) = Len(OrderRows(tables))
            /\ \A i \in 1..Len(OrderRows(tables)) :
                 OrderRows(tables')[i].id = OrderRows(tables)[i].id
       /\ Ran(OrderDelete) =>
            \E S \in SUBSET (1..Len(OrderRows(tables))) :
               OrderRows(tables') = RowsAt(OrderRows(tables), S)
       /\ Ran(OrderSelect) =>
            /\ tables' = tables
            /\ "data" \in DOMAIN result'
            /\ result'.data = OrderRows(tables)]_vars

\* row 1 was deleted and inserted again: it is after row 2, and row 2 holds
\* its values in the declared columns
C20_Witness ==
  /\ history # <<>>
  /\ LastCommand = "INSERT INTO o VALUES (1, 10)"
  /\ IsTable(tables, "o")
  /\ OrderRows(tables) = <<[id |-> Num(2), n |-> Num(20)], [id |-> Num(1), n |-> Num(10)]>>

\* C21: a statement whose tokens are separated by line breaks is recognised
\* like its single-line form: the CREATE TABLE users of the example does
\* what the statement on one line does, and after it and the two INSERTs
\* `SELECT * FROM users` returns 2 rows.
C21_MultiLineRecognised ==
  [][/\ Ran(ExampleCreate) =>
          /\ result' = Run(tables, ExampleCreateOneLine).result
          /\ tables' = Run(tables, ExampleCreateOneLine).tables
     /\ (Ran(ExampleSelect) /\ history = <<ExampleCreate, ExampleInsertAlice, ExampleInsertBob>>) =>
          ("data" \in DOMAIN result' /\ result'.count = 2)]_vars

\* what the condition age<op>30 has to say of a row whose age is a number
WhereExpected(op, row) ==
  CASE op = "<=" -> row.age.v <= 30
    [] op = "="  -> row.age.v = 30
    [] OTHER     -> ~_evaluateWhere(row, "age=30")

\* C22: the first operator of the list >=, <=, !=, <>, =, <, > that the
\* condition contains is used: `age<=30` selects the rows whose age is at
\* most 30, the row with age 30 included, and `age!=30` and `age<>30`
\* select exactly the rows that `age=30` does not.
C22_FirstOperatorDecides ==
  [][\A op \in WhereOperators :
       (Ran(WhereText(op)) /\ IsTable(tables, "w")) =>
          /\ "data" \in DOMAIN result'
          /\ result'.data =
               SelectSeq(TableOf(tables, "w").rows, LAMBDA row : WhereExpected(op, row))]_vars

\* `age<=30` has returned the row with age 30 and not the row with age 31
C22_Witness ==
  /\ history # <<>>
  /\ LastCommand = WhereText("<=")
  /\ IsTable(tables, "w")
  /\ Len(TableOf(tables, "w").rows) = 2
  /\ result = [data    |-> <<[id |-> Num(1), age |-> Num(30)]>>,
               count   |-> 1,
               columns |-> <<"id", "age">>]

\* a table without its rows
Schema(table) == [table EXCEPT !.rows = <<>>]

\* C23: INSERT, UPDATE and DELETE on table t change neither the declared
\* columns nor the constraints of t, create and remove no table and change
\* nothing of any other table; UPDATE changes neither the number nor the
\* order of the rows of t.
C23_WritesKeepSchemaAndOthers ==
  [][\A in \in FrameInputs :
       Ran(in.text) =>
         /\ Len(tables') = Len(tables)
         /\ \A i \in 1..Len(tables) :
              /\ Schema(tables'[i]) = Schema(tables[i])
              /\ tables[i].name # in.table => tables'[i] = tables[i]
              /\ in.verb = "UPDATE" =>
                   /\ Len(tables'[i].rows) = Len(tables[i].rows)
                   /\ \A r \in 1..Len(tables[i].rows) :
                        tables'[i].rows[r].id = tables[i].rows[r].id]_vars

\* an UPDATE has written an undeclared key into the two rows of a, which
\* were inserted with key 2 before key 1: the rows are at their places
\* and a keeps its two columns
C23_Witness ==
  /\ history # <<>>
  /\ LastCommand = "UPDATE a SET z = 1 WHERE id = 1"
  /\ IsTable(tables, "a")
  /\ Len(TableOf(tables, "a").rows) = 2
  /\ TableOf(tables, "a").rows[1].id = Num(2)
  /\ TableOf(tables, "a").rows[2].id = Num(1)
  /\ \A r \in 1..2 : "z" \in DOMAIN TableOf(tables, "a").rows[r]
  /\ ColumnNames(TableOf(tables, "a")) = <<"id", "x">>

\* C24: SELECT, SHOW TABLES and DESCRIBE are read-only: they leave the
\* whole catalog as it was, whether they succeed or fail, and the same read
\* repeated with no write in between returns the same Result.
C24_ReadsChangeNothing ==
  [][\A sql \in ReadCommands :
       Ran(sql) =>
         /\ tables' = tables
         /\ result' = Run(tables', sql).result
         /\ (history # <<>> /\ LastCommand = sql) => result' = result]_vars

\* a SELECT with a WHERE has returned one row of two, and both rows are in
\* the table
C24_Witness ==
  /\ history # <<>>
  /\ LastCommand = "SELECT a FROM d WHERE id > 1"
  /\ IsTable(tables, "d")
  /\ Len(TableOf(tables, "d").rows) = 2
  /\ "count" \in DOMAIN result
  /\ result.count = 1

\* C25: after DROP TABLE c, a successful CREATE TABLE c gives a table with
\* no row and exactly the columns and constraints of the new definition,
\* whatever table c was before; and a key used before the drop is accepted
\* by the INSERT into the new table.
C25_RecreatedTableIsNew ==
  [][/\ \A in \in RecreateInputs :
          (Ran(in.text) /\ IsMessage(result')) =>
             /\ IsTable(tables', "c")
             /\ TableOf(tables', "c") =
                  [name        |-> "c",
                   columns     |-> in.columns,
                   constraints |-> [primaryKey |-> in.primaryKey, unique |-> in.unique],
                   rows        |-> <<>>,
                   indexes     |-> <<>>]
             /\ Len(tables') = 1
     /\ Ran(RecreateDrop) => tables' = <<>>
     /\ (Ran(RecreateInsert) /\ IsTable(tables, "c") /\ TableOf(tables, "c").rows = <<>>) =>
          (IsMessage(result') /\ Len(TableOf(tables', "c").rows) = 1)]_vars

\* table c held key 1, was dropped and created with the other definition,
\* and key 1 is in it again, in its one row
C25_Witness ==
  /\ history = <<"CREATE TABLE c (id INT PRIMARY KEY, a TEXT UNIQUE)", RecreateInsert,
                 RecreateDrop, "CREATE TABLE c (k INT, b REAL)", RecreateInsert>>
  /\ IsMessage(result)
  /\ TableOf(tables, "c").rows = <<[k |-> Num(1), b |-> Num(5)]>>

====
